---------------------------- MODULE Spec2Model ----------------------------
(***************************************************************************)
(* The continuous speech-capture session of Health-Trans: the React hook   *)
(* useSpeechRecognition (src/unnamed/part_000) driving host-owned          *)
(* SpeechRecognition resources.                                            *)
(*                                                                         *)
(* Hook state: isListening (useState), recognitionRef and                  *)
(* shouldBeListening (useRef).  Every resource the hook ever created keeps *)
(* the handlers that setupRecognition attached to it, so the resources are *)
(* kept in a map indexed by creation order.  A resource is an internal     *)
(* running state plus the lifecycle events (started / ended) it has        *)
(* emitted and the host has not yet dispatched.                            *)
(*                                                                         *)
(* The hook's caller is the App component (src/unnamed/part_001): it owns  *)
(* the language pair, the speaker tag, the transcript log and the flags    *)
(* shown to the user, and it sends every final result to the translation   *)
(* service (src/services/geminiService.ts).                                *)
(***************************************************************************)
EXTENDS Naturals, Sequences, FiniteSets

VARIABLES
    capability,         \* window.SpeechRecognition || webkitSpeechRecognition exists
    mounted,            \* "fresh" (effect not yet run), "mounted", "disposed"
    lang,               \* the lang prop of the hook
    isListening,        \* useState(false)
    recognitionRef,     \* useRef(null): 0 is null, otherwise a resource id
    shouldBeListening,  \* useRef(false): DesiredState
    nres,               \* number of resources constructed so far
    res,                \* resource id -> [lang, st, q]
    last,               \* what the last operation did (calls made, callbacks invoked)
    stopped,            \* the latest of the start()/stop()/dispose calls was a stop or dispose
    scen,               \* progress along the configure/start/started/ended/started scenario
    targetLang,         \* App: useState('es-ES'); sourceLang is the hook's lang
    speaker,            \* App: useState('provider')
    transcripts,        \* App: useState([]), the transcript log
    logged,             \* for each entry of the log, the dispatch number of its final result
    interimText,        \* App: useState('')
    error,              \* App: useState(null)
    isTranslating,      \* App: useState(false)
    closure,            \* resource id -> the App state its onResult callback captured
    inflight,           \* handleTranslation calls suspended at the await
    ndisp               \* number of translations dispatched so far

appVars == <<targetLang, speaker, transcripts, logged, interimText, error, isTranslating,
             closure, inflight, ndisp>>

vars == <<capability, mounted, lang, isListening, recognitionRef,
          shouldBeListening, nres, res, last, stopped, scen, appVars>>

---------------------------------------------------------------------------
(* Bounds *)

\* resources constructed in one behaviour (one per effect run)
MaxRes == 2
\* lifecycle events the resources have emitted that the host has not yet dispatched
MaxQueue == 2
\* segments in one result batch
MaxSegs == 3
\* translations dispatched in one behaviour
MaxFinals == 2

---------------------------------------------------------------------------
(* Values *)

Langs == {"en-US", "es-ES"}

Unsupported == "Speech recognition not supported in this browser."

BenignErrors == {"no-speech", "audio-capture"}
ErrorKinds == BenignErrors \cup {"not-allowed", "network"}

ResIds == 1..MaxRes

\* transcripts are sequences of characters
Texts == { <<>>, <<"a">>, <<"b">>, <<" ">>, <<" ", "a">> }

Segment(t, f) == [transcript |-> t, isFinal |-> f]
Segments == { Segment(t, f) : t \in Texts, f \in BOOLEAN }

RECURSIVE SeqsUpTo(_, _)
SeqsUpTo(S, n) ==
    IF n = 0 THEN { <<>> }
    ELSE LET shorter == SeqsUpTo(S, n - 1)
         IN  shorter \cup { Append(s, x) : s \in { t \in shorter : Len(t) = n - 1 }, x \in S }

\* the result events the resource can report: results list and resultIndex (0-based)
Batches == { [results |-> b, resultIndex |-> i] :
               b \in SeqsUpTo(Segments, MaxSegs), i \in 0..MaxSegs }

\* the batches used where the session state, not the text, is under study
FewBatches ==
    { [results |-> <<Segment(<<"a">>, TRUE)>>, resultIndex |-> 0],
      [results |-> <<Segment(<<"b">>, FALSE)>>, resultIndex |-> 0] }

NoArg == [results |-> <<>>, resultIndex |-> 0]

\* the batches the App is studied with: a final, an interim, a blank final, a second final
AppBatches ==
    FewBatches \cup
    { [results |-> <<Segment(<<" ">>, TRUE)>>, resultIndex |-> 0],
      [results |-> <<Segment(<<"b">>, TRUE)>>, resultIndex |-> 0] }

Speakers == {"provider", "patient"}

\* error: null
NoError == "null"
TranslationIssue == "Medical translation service encountered an issue."
MicDenied == "Microphone access denied. Please check browser permissions."
ConnectError == "Error: Unable to connect to translation service."
TranslationFailed == "Translation failed."

\* what one call of the translation service can do: answer with text, answer
\* without text, fail in transport, or fail building the client
Outcomes == {"text", "noText", "fault", "client"}

Captured(s, t, sp) == [sourceLang |-> s, targetLang |-> t, speaker |-> sp]

---------------------------------------------------------------------------
(* Text: String.prototype.trim and the accumulation loop of onresult *)

IsSpace(c) == c = " "

RECURSIVE TrimLeft(_)
TrimLeft(t) ==
    IF t = <<>> THEN <<>>
    ELSE IF IsSpace(Head(t)) THEN TrimLeft(Tail(t)) ELSE t

RECURSIVE TrimRight(_)
TrimRight(t) ==
    IF t = <<>> THEN <<>>
    ELSE IF IsSpace(t[Len(t)]) THEN TrimRight(SubSeq(t, 1, Len(t) - 1)) ELSE t

trim(t) == TrimRight(TrimLeft(t))

\* for (let i = from; i < results.length; ++i) if (results[i].isFinal == f) acc += transcript
\* (i is the 0-based index of the code; results is 1-based here)
RECURSIVE Accumulate(_, _, _)
Accumulate(results, i, f) ==
    IF i >= Len(results) THEN <<>>
    ELSE (IF results[i + 1].isFinal = f THEN results[i + 1].transcript ELSE <<>>)
         \o Accumulate(results, i + 1, f)

finalTranscript(event) == Accumulate(event.results, event.resultIndex, TRUE)
interimTranscript(event) == Accumulate(event.results, event.resultIndex, FALSE)

\* a JavaScript string is truthy iff it is not empty
Truthy(t) == t # <<>>

Call(t, f) == [text |-> t, isFinal |-> f]

\* onresult that reports the interim text after the final text
onresult_Both(event) ==
    (IF Truthy(finalTranscript(event))
     THEN << Call(trim(finalTranscript(event)), TRUE) >> ELSE <<>>)
    \o (IF Truthy(interimTranscript(event))
        THEN << Call(trim(interimTranscript(event)), FALSE) >> ELSE <<>>)

\* the onResult calls one result event makes
onresult(event) ==
    IF Truthy(finalTranscript(event))
    THEN << Call(trim(finalTranscript(event)), TRUE) >>
    ELSE IF Truthy(interimTranscript(event))
         THEN << Call(trim(interimTranscript(event)), FALSE) >>
         ELSE <<>>

---------------------------------------------------------------------------
(* The host resource: start() and stop() requests *)

Active == {"starting", "running", "stopping"}

\* start() raises InvalidStateError unless the resource is idle
StartThrows(R, r) == R[r].st # "idle"

StartReq(R, r) ==
    IF StartThrows(R, r) THEN R ELSE [R EXCEPT ![r].st = "starting"]

\* stop() that does not raise asks a starting or capturing resource to wind down;
\* otherwise it does nothing
StopReq(R, r) ==
    IF R[r].st \in {"starting", "running"} THEN [R EXCEPT ![r].st = "stopping"] ELSE R

\* stop() may raise when the resource is idle or in a transitional state
StopMayThrow(R, r) == R[r].st \in {"idle", "starting", "stopping"}

\* whether one stop() request on recognitionRef.current raises
StopOutcomes(R, ref) ==
    IF ref # 0 /\ StopMayThrow(R, ref) THEN BOOLEAN ELSE {FALSE}

\* events emitted and not yet dispatched, over all resources
RECURSIVE PendingUpTo(_, _)
PendingUpTo(R, n) ==
    IF n = 0 THEN 0 ELSE Len(R[n].q) + PendingUpTo(R, n - 1)

Pending(R) == PendingUpTo(R, MaxRes)

Dequeue(R, r) == [R EXCEPT ![r].q = Tail(@)]

---------------------------------------------------------------------------
(* The handlers setupRecognition attaches to a resource.  Each yields the  *)
(* hook state after the handler and the calls it made.                     *)

\* caught: the handler's try/catch swallowed an exception of the resource;
\* threw: an exception left the handler
Effect(l, s, R, st, sp, oe, orr) ==
    [isListening |-> l, shouldBeListening |-> s, res |-> R,
     starts |-> st, stops |-> sp, onError |-> oe, onResult |-> orr,
     caught |-> FALSE, threw |-> FALSE]

Caught(e, c) == [e EXCEPT !.caught = c]
Thrown(e, c) == [e EXCEPT !.threw = c]

\* onstart that forgets setIsListening(true)
onstart_NotObserved(r, R) ==
    Effect(isListening, shouldBeListening, R, <<>>, <<>>, <<>>, <<>>)

\* recognition.onstart = () => setIsListening(true)
onstart(r, R) ==
    Effect(TRUE, shouldBeListening, R, <<>>, <<>>, <<>>, <<>>)

\* onend without the auto-restart
onend_NoRestart(r, R) ==
    Effect(FALSE, shouldBeListening, R, <<>>, <<>>, <<>>, <<>>)

\* onend that restarts without reading shouldBeListening
onend_AlwaysRestart(r, R) ==
    Effect(FALSE, shouldBeListening, StartReq(R, r), <<r>>, <<>>, <<>>, <<>>)

\* onend that forgets setIsListening(false)
onend_KeepListening(r, R) ==
    IF shouldBeListening
    THEN Effect(isListening, shouldBeListening, StartReq(R, r), <<r>>, <<>>, <<>>, <<>>)
    ELSE Effect(isListening, shouldBeListening, R, <<>>, <<>>, <<>>, <<>>)

\* onend that gives up: it clears shouldBeListening instead of restarting
onend_ClearsDesired(r, R) ==
    Effect(FALSE, FALSE, R, <<>>, <<>>, <<>>, <<>>)

\* onend that gives up once a restart has failed: the catch clears shouldBeListening
onend_GiveUpOnThrow(r, R) ==
    IF shouldBeListening
    THEN Caught(Effect(FALSE, ~StartThrows(R, r), StartReq(R, r), <<r>>, <<>>, <<>>, <<>>),
                StartThrows(R, r))
    ELSE Effect(FALSE, shouldBeListening, R, <<>>, <<>>, <<>>, <<>>)

\* onend whose restart is not wrapped in try/catch
onend_NoCatch(r, R) ==
    IF shouldBeListening
    THEN Thrown(Effect(FALSE, shouldBeListening, StartReq(R, r), <<r>>, <<>>, <<>>, <<>>),
                StartThrows(R, r))
    ELSE Effect(FALSE, shouldBeListening, R, <<>>, <<>>, <<>>, <<>>)

\* recognition.onend: setIsListening(false), then restart if still wanted;
\* the try/catch around the restart only logs
onend(r, R) ==
    IF shouldBeListening
    THEN Caught(Effect(FALSE, shouldBeListening, StartReq(R, r), <<r>>, <<>>, <<>>, <<>>),
                StartThrows(R, r))
    ELSE Effect(FALSE, shouldBeListening, R, <<>>, <<>>, <<>>, <<>>)

\* onerror without the filter for the harmless kinds
onerror_SurfaceAll(r, R, kind) ==
    Effect(isListening, shouldBeListening, R, <<>>, <<>>, <<kind>>, <<>>)

\* recognition.onerror: the two harmless kinds are only logged
onerror(r, R, kind) ==
    IF kind = "no-speech" \/ kind = "audio-capture"
    THEN Effect(isListening, shouldBeListening, R, <<>>, <<>>, <<>>, <<>>)
    ELSE Effect(isListening, shouldBeListening, R, <<>>, <<>>, <<kind>>, <<>>)

\* recognition.onresult
onresultHandler(r, R, event) ==
    Effect(isListening, shouldBeListening, R, <<>>, <<>>, <<>>, onresult(event))

---------------------------------------------------------------------------
(* Effect set-up and clean-up *)

NoResource == [lang |-> "", st |-> "idle", q |-> <<>>]

\* setupRecognition: without the capability only onError is called and
\* recognitionRef is left as it was; otherwise a new resource is built and bound
setupRecognition(l, R, ref, n) ==
    IF ~capability
    THEN [res |-> R, recognitionRef |-> ref, nres |-> n, onError |-> <<Unsupported>>]
    ELSE [res |-> [R EXCEPT ![n + 1] = [lang |-> l, st |-> "idle", q |-> <<>>]],
          recognitionRef |-> n + 1, nres |-> n + 1, onError |-> <<>>]

\* the effect's clean-up: shouldBeListening.current = false; recognitionRef.current?.stop()
\* (boom: the resource's stop() raises; nothing catches it)
cleanup(R, ref, boom) ==
    IF ref # 0
    THEN [shouldBeListening |-> FALSE, res |-> IF boom THEN R ELSE StopReq(R, ref),
          stops |-> <<ref>>, threw |-> boom]
    ELSE [shouldBeListening |-> FALSE, res |-> R, stops |-> <<>>, threw |-> FALSE]

---------------------------------------------------------------------------
(* Observers: the record of the last operation, and the two monitors *)

Op(op, r, kind, event, st, sp, oe, orr) ==
    [op |-> op, rid |-> r, kind |-> kind, event |-> event,
     starts |-> st, stops |-> sp, onError |-> oe, onResult |-> orr,
     caught |-> FALSE, threw |-> FALSE]

\* the same, for an operation in which the resource raised an exception
OpExc(o, c, t) == [o EXCEPT !.caught = c, !.threw = t]

EventOps == {"started", "ended", "error", "result"}

\* configure(en-US); start(); started; ended; started -- any other operation leaves the run
ScenNext(op) ==
    CASE op = "mount" /\ scen = 0 /\ capability /\ lang = "en-US" -> 1
      [] op = "start" /\ scen = 1 -> 2
      [] op = "started" /\ scen = 2 -> 3
      [] op = "ended" /\ scen = 3 -> 4
      [] op = "started" /\ scen = 4 -> 5
      [] OTHER -> 6

---------------------------------------------------------------------------
(* Initial state: the hook's useState / useRef initial values *)

Init ==
    /\ capability \in BOOLEAN
    /\ mounted = "fresh"
    /\ lang = "en-US"
    /\ isListening = FALSE
    /\ recognitionRef = 0
    /\ shouldBeListening = FALSE
    /\ nres = 0
    /\ res = [r \in ResIds |-> NoResource]
    /\ last = Op("init", 0, "", NoArg, <<>>, <<>>, <<>>, <<>>)
    /\ stopped = FALSE
    /\ scen = 0
    /\ targetLang = "es-ES"
    /\ speaker = "provider"
    /\ transcripts = <<>>
    /\ logged = <<>>
    /\ interimText = <<>>
    /\ error = NoError
    /\ isTranslating = FALSE
    /\ closure = [r \in ResIds |-> Captured("", "", "")]
    /\ inflight = <<>>
    /\ ndisp = 0

---------------------------------------------------------------------------
(* Caller operations *)

\* first run of the effect
Mount ==
    /\ mounted = "fresh"
    /\ LET s == setupRecognition(lang, res, recognitionRef, nres)
       IN  /\ res' = s.res
           /\ recognitionRef' = s.recognitionRef
           /\ nres' = s.nres
           /\ last' = Op("mount", s.recognitionRef, lang, NoArg, <<>>, <<>>, s.onError, <<>>)
    /\ mounted' = "mounted"
    /\ scen' = ScenNext("mount")
    /\ UNCHANGED <<capability, lang, isListening, shouldBeListening, stopped>>

\* setupRecognition changed identity: clean-up of the old effect, then the new effect
Configure(l) ==
    /\ mounted = "mounted"
    /\ capability => nres < MaxRes
    /\ \E boom \in StopOutcomes(res, recognitionRef) :
         LET c == cleanup(res, recognitionRef, boom)
             s == setupRecognition(l, c.res, recognitionRef, nres)
         IN  /\ shouldBeListening' = c.shouldBeListening
             /\ res' = s.res
             /\ recognitionRef' = s.recognitionRef
             /\ nres' = s.nres
             /\ last' = OpExc(Op("configure", s.recognitionRef, l, NoArg,
                                 <<>>, c.stops, s.onError, <<>>), FALSE, c.threw)
    /\ lang' = l
    /\ scen' = ScenNext("configure")
    /\ UNCHANGED <<capability, mounted, isListening, stopped>>

\* unmount: the clean-up alone
Dispose ==
    /\ mounted = "mounted"
    /\ \E boom \in StopOutcomes(res, recognitionRef) :
         LET c == cleanup(res, recognitionRef, boom)
         IN  /\ shouldBeListening' = c.shouldBeListening
             /\ res' = c.res
             /\ last' = OpExc(Op("dispose", recognitionRef, "", NoArg,
                                 <<>>, c.stops, <<>>, <<>>), FALSE, c.threw)
    /\ mounted' = "disposed"
    /\ stopped' = TRUE
    /\ scen' = ScenNext("dispose")
    /\ UNCHANGED <<capability, lang, isListening, recognitionRef, nres>>

\* startListening without the try/catch
startListening_NoCatch(R, ref) ==
    IF ref # 0
    THEN [shouldBeListening |-> TRUE, res |-> StartReq(R, ref), starts |-> <<ref>>,
          caught |-> FALSE, threw |-> StartThrows(R, ref)]
    ELSE [shouldBeListening |-> TRUE, res |-> R, starts |-> <<>>,
          caught |-> FALSE, threw |-> FALSE]

\* startListening that requests the start without checking recognitionRef.current
startListening_NoNullCheck(R, ref) ==
    [shouldBeListening |-> TRUE, res |-> R, starts |-> <<ref>>,
     caught |-> FALSE, threw |-> ref = 0]

\* startListening: the try/catch swallows the resource's exception
startListening(R, ref) ==
    IF ref # 0
    THEN [shouldBeListening |-> TRUE, res |-> StartReq(R, ref), starts |-> <<ref>>,
          caught |-> StartThrows(R, ref), threw |-> FALSE]
    ELSE [shouldBeListening |-> TRUE, res |-> R, starts |-> <<>>,
          caught |-> FALSE, threw |-> FALSE]

StartListening ==
    /\ mounted = "mounted"
    /\ LET s == startListening(res, recognitionRef)
       IN  /\ shouldBeListening' = s.shouldBeListening
           /\ res' = s.res
           /\ last' = OpExc(Op("start", recognitionRef, "", NoArg, s.starts, <<>>, <<>>, <<>>),
                            s.caught, s.threw)
    /\ stopped' = FALSE
    /\ scen' = ScenNext("start")
    /\ UNCHANGED <<capability, mounted, lang, isListening, recognitionRef, nres>>

\* stopListening: no try/catch around recognitionRef.current.stop()
\* (boom: the resource's stop() raises)
stopListening(R, ref, boom) ==
    IF ref # 0
    THEN [shouldBeListening |-> FALSE, res |-> IF boom THEN R ELSE StopReq(R, ref),
          stops |-> <<ref>>, threw |-> boom]
    ELSE [shouldBeListening |-> FALSE, res |-> R, stops |-> <<>>, threw |-> FALSE]

StopListening ==
    /\ mounted = "mounted"
    /\ \E boom \in StopOutcomes(res, recognitionRef) :
         LET s == stopListening(res, recognitionRef, boom)
         IN  /\ shouldBeListening' = s.shouldBeListening
             /\ res' = s.res
             /\ last' = OpExc(Op("stop", recognitionRef, "", NoArg,
                                 <<>>, s.stops, <<>>, <<>>), FALSE, s.threw)
    /\ stopped' = TRUE
    /\ scen' = ScenNext("stop")
    /\ UNCHANGED <<capability, mounted, lang, isListening, recognitionRef, nres>>

---------------------------------------------------------------------------
(* The resource's own steps: it emits lifecycle events, dispatched later *)

\* an accepted start() takes effect
ResStarted(r) ==
    /\ r <= nres
    /\ res[r].st = "starting"
    /\ Pending(res) < MaxQueue
    /\ res' = [res EXCEPT ![r].st = "running", ![r].q = Append(@, "started")]
    /\ UNCHANGED <<capability, mounted, lang, isListening, recognitionRef,
                   shouldBeListening, nres, last, stopped, scen>>

\* the resource ends: after stop(), on silence or a time limit, or failing to start
ResEnded(r) ==
    /\ r <= nres
    /\ res[r].st \in Active
    /\ Pending(res) < MaxQueue
    /\ res' = [res EXCEPT ![r].st = "idle", ![r].q = Append(@, "ended")]
    /\ UNCHANGED <<capability, mounted, lang, isListening, recognitionRef,
                   shouldBeListening, nres, last, stopped, scen>>

---------------------------------------------------------------------------
(* Dispatch of a resource's event to the handler attached to it *)

Handle(op, r, kind, event, e) ==
    /\ isListening' = e.isListening
    /\ shouldBeListening' = e.shouldBeListening
    /\ res' = e.res
    /\ last' = OpExc(Op(op, r, kind, event, e.starts, e.stops, e.onError, e.onResult),
                     e.caught, e.threw)
    /\ scen' = ScenNext(op)
    /\ UNCHANGED <<capability, mounted, lang, recognitionRef, nres, stopped>>

DeliverStarted(r) ==
    /\ r <= nres
    /\ res[r].q # <<>>
    /\ Head(res[r].q) = "started"
    /\ Handle("started", r, "", NoArg, onstart(r, Dequeue(res, r)))

DeliverEnded(r) ==
    /\ r <= nres
    /\ res[r].q # <<>>
    /\ Head(res[r].q) = "ended"
    /\ Handle("ended", r, "", NoArg, onend(r, Dequeue(res, r)))

DeliverError(r, kind) ==
    /\ r <= nres
    /\ res[r].st \in Active
    /\ Handle("error", r, kind, NoArg, onerror(r, res, kind))

DeliverResult(r, event) ==
    /\ r <= nres
    /\ res[r].st \in {"running", "stopping"}
    /\ Handle("result", r, "", event, onresultHandler(r, res, event))

---------------------------------------------------------------------------

Next ==
    \/ Mount /\ UNCHANGED appVars
    \/ \E l \in Langs : Configure(l) /\ UNCHANGED appVars
    \/ Dispose /\ UNCHANGED appVars
    \/ StartListening /\ UNCHANGED appVars
    \/ StopListening /\ UNCHANGED appVars
    \/ \E r \in ResIds : ResStarted(r) /\ UNCHANGED appVars
    \/ \E r \in ResIds : ResEnded(r) /\ UNCHANGED appVars
    \/ \E r \in ResIds : DeliverStarted(r) /\ UNCHANGED appVars
    \/ \E r \in ResIds : DeliverEnded(r) /\ UNCHANGED appVars
    \/ \E r \in ResIds, kind \in ErrorKinds : DeliverError(r, kind) /\ UNCHANGED appVars
    \/ \E r \in ResIds, event \in FewBatches : DeliverResult(r, event) /\ UNCHANGED appVars

Spec == Init /\ [][Next]_vars

\* The text of result events: one resource, configured and started, reports any
\* one batch.  onresult keeps nothing from one batch to the next, so a single
\* batch per behaviour covers every batch.
DeliverOneBatch ==
    /\ last.op # "result"
    /\ \E r \in ResIds, event \in Batches : DeliverResult(r, event)

NextBatch ==
    \/ Mount /\ UNCHANGED appVars
    \/ StartListening /\ UNCHANGED appVars
    \/ \E r \in ResIds : ResStarted(r) /\ UNCHANGED appVars
    \/ \E r \in ResIds : DeliverStarted(r) /\ UNCHANGED appVars
    \/ DeliverOneBatch /\ UNCHANGED appVars

SpecBatch == Init /\ [][NextBatch]_vars

\* A host whose resources keep their promises: every accepted start() is
\* answered with a started event (a resource does not end while starting), a
\* stop() that was accepted completes, and every emitted event is dispatched.
ResEndedAfterStart(r) ==
    /\ res[r].st \in {"running", "stopping"}
    /\ ResEnded(r)

ResStopCompletes(r) ==
    /\ res[r].st = "stopping"
    /\ ResEnded(r)

\* error and result events leave isListening, shouldBeListening and the
\* resources as they are, and an unmount ends the session for good (the
\* clean-up clears shouldBeListening): recovery is studied without them.  The
\* language of a resource plays no part in its lifecycle, so the effect is
\* re-run for a new callback identity, with the language kept.
NextLive ==
    \/ Mount /\ UNCHANGED appVars
    \/ Configure(lang) /\ UNCHANGED appVars
    \/ StartListening /\ UNCHANGED appVars
    \/ StopListening /\ UNCHANGED appVars
    \/ \E r \in ResIds : ResStarted(r) /\ UNCHANGED appVars
    \/ \E r \in ResIds : ResEndedAfterStart(r) /\ UNCHANGED appVars
    \/ \E r \in ResIds : DeliverStarted(r) /\ UNCHANGED appVars
    \/ \E r \in ResIds : DeliverEnded(r) /\ UNCHANGED appVars

SpecLive ==
    /\ Init
    /\ [][NextLive]_vars
    /\ \A r \in ResIds : SF_vars(ResStarted(r) /\ UNCHANGED appVars)
    /\ \A r \in ResIds : SF_vars(ResStopCompletes(r) /\ UNCHANGED appVars)
    /\ \A r \in ResIds : WF_vars(DeliverStarted(r) /\ UNCHANGED appVars)
    /\ \A r \in ResIds : WF_vars(DeliverEnded(r) /\ UNCHANGED appVars)

---------------------------------------------------------------------------
(* The App component: the caller of the hook *)

\* onSpeechError
onSpeechError(err) ==
    IF err = "not-allowed" THEN MicDenied ELSE <<"Speech Recognition Error: ", err>>

\* the error state after the onError calls of one hook operation
AfterOnError(calls) ==
    IF calls = <<>> THEN error ELSE onSpeechError(calls[Len(calls)])

\* translateMedicalText: the client is built outside the try, so only a failure
\* there rejects; a fault of the request itself is caught and answered with a string
translateMedicalText(text, s, t, o) ==
    CASE o = "client" -> [raised |-> TRUE, value |-> ""]
      [] o = "fault" -> [raised |-> FALSE, value |-> ConnectError]
      [] o = "noText" -> [raised |-> FALSE, value |-> TranslationFailed]
      [] OTHER -> [raised |-> FALSE, value |-> <<"translation", text, s, t>>]

\* the entry handleTranslation builds (the timestamp is left out)
TranscriptEntry(f, translated, id) ==
    [id |-> id, originalText |-> f.text, translatedText |-> translated,
     sourceLang |-> f.sourceLang, targetLang |-> f.targetLang, speaker |-> f.speaker]

Remove(q, i) == SubSeq(q, 1, i - 1) \o SubSeq(q, i + 1, Len(q))

\* a re-render in which handleTranslation, and with it onSpeechResult and
\* setupRecognition, changed identity: the hook's effect is cleaned up and run again
Rerender(l, t, sp) ==
    /\ Configure(l)
    /\ closure' = IF capability THEN [closure EXCEPT ![nres + 1] = Captured(l, t, sp)]
                  ELSE closure
    /\ error' = IF capability THEN error ELSE onSpeechError(Unsupported)

\* the first render and effect
AppMount ==
    /\ Mount
    /\ closure' = IF capability
                  THEN [closure EXCEPT ![nres + 1] = Captured(lang, targetLang, speaker)]
                  ELSE closure
    /\ error' = IF capability THEN error ELSE onSpeechError(Unsupported)
    /\ UNCHANGED <<targetLang, speaker, transcripts, logged, interimText, isTranslating,
                   inflight, ndisp>>

\* the speaker buttons
SetSpeaker(sp) ==
    /\ sp # speaker
    /\ speaker' = sp
    /\ Rerender(lang, targetLang, sp)
    /\ UNCHANGED <<targetLang, transcripts, logged, interimText, isTranslating, inflight, ndisp>>

\* the target-language select
SetTargetLang(t) ==
    /\ t # targetLang
    /\ targetLang' = t
    /\ Rerender(lang, t, speaker)
    /\ UNCHANGED <<speaker, transcripts, logged, interimText, isTranslating, inflight, ndisp>>

\* the source-language select
SetSourceLang(l) ==
    /\ l # lang
    /\ Rerender(l, targetLang, speaker)
    /\ UNCHANGED <<targetLang, speaker, transcripts, logged, interimText, isTranslating,
                   inflight, ndisp>>

swapLanguages ==
    /\ lang # targetLang
    /\ targetLang' = lang
    /\ Rerender(targetLang, lang, speaker)
    /\ UNCHANGED <<speaker, transcripts, logged, interimText, isTranslating, inflight, ndisp>>

\* toggleRecording: decides on isListening
toggleRecording ==
    /\ error' = NoError
    /\ IF isListening THEN StopListening ELSE StartListening
    /\ UNCHANGED <<targetLang, speaker, transcripts, logged, interimText, isTranslating,
                   closure, inflight, ndisp>>

\* an error event reaches onSpeechError through the hook's onerror
AppDeliverError(r, kind) ==
    /\ DeliverError(r, kind)
    /\ error' = AfterOnError(onerror(r, res, kind).onError)
    /\ UNCHANGED <<targetLang, speaker, transcripts, logged, interimText, isTranslating,
                   closure, inflight, ndisp>>

\* handleTranslation up to the await, with the state the callback captured
handleTranslation(text, c) ==
    IF trim(text) = <<>>
    THEN UNCHANGED <<isTranslating, error, inflight, ndisp>>
    ELSE /\ isTranslating' = TRUE
         /\ error' = NoError
         /\ inflight' = Append(inflight, [n |-> ndisp + 1, text |-> text,
                                         sourceLang |-> c.sourceLang,
                                         targetLang |-> c.targetLang,
                                         speaker |-> c.speaker])
         /\ ndisp' = ndisp + 1

\* onSpeechResult
onSpeechResult(call, c) ==
    IF call.isFinal
    THEN /\ handleTranslation(call.text, c)
         /\ UNCHANGED interimText
    ELSE /\ interimText' = call.text
         /\ UNCHANGED <<isTranslating, error, inflight, ndisp>>

\* a result event reaches onSpeechResult through the hook's onresult
AppDeliverResult(r, event) ==
    /\ ndisp < MaxFinals
    /\ DeliverResult(r, event)
    /\ IF onresult(event) = <<>>
       THEN UNCHANGED <<interimText, isTranslating, error, inflight, ndisp>>
       ELSE onSpeechResult(onresult(event)[1], closure[r])
    /\ UNCHANGED <<targetLang, speaker, transcripts, logged, closure>>

\* handleTranslation from the await on: the i-th suspended call resumes
TranslationSettles(i, o) ==
    /\ i \in 1..Len(inflight)
    /\ LET f == inflight[i]
           t == translateMedicalText(f.text, f.sourceLang, f.targetLang, o)
       IN  /\ transcripts' = IF t.raised THEN transcripts
                             ELSE Append(transcripts,
                                         TranscriptEntry(f, t.value, Len(transcripts) + 1))
           /\ logged' = IF t.raised THEN logged ELSE Append(logged, f.n)
           /\ error' = IF t.raised THEN TranslationIssue ELSE error
    /\ isTranslating' = FALSE
    /\ interimText' = <<>>
    /\ inflight' = Remove(inflight, i)
    /\ UNCHANGED <<capability, mounted, lang, isListening, recognitionRef,
                   shouldBeListening, nres, res, last, stopped, scen,
                   targetLang, speaker, closure, ndisp>>

\* The session under its caller's controls
NextApp ==
    \/ AppMount
    \/ toggleRecording
    \/ \E sp \in Speakers : SetSpeaker(sp)
    \/ \E t \in Langs : SetTargetLang(t)
    \/ \E l \in Langs : SetSourceLang(l)
    \/ swapLanguages
    \/ \E r \in ResIds : ResStarted(r) /\ UNCHANGED appVars
    \/ \E r \in ResIds : ResEnded(r) /\ UNCHANGED appVars
    \/ \E r \in ResIds : DeliverStarted(r) /\ UNCHANGED appVars
    \/ \E r \in ResIds : DeliverEnded(r) /\ UNCHANGED appVars
    \/ \E r \in ResIds, kind \in ErrorKinds : AppDeliverError(r, kind)

SpecApp == Init /\ [][NextApp]_vars

\* The results of one recording on their way into the transcript log
NextTranslate ==
    \/ AppMount
    \/ toggleRecording
    \/ \E r \in ResIds : ResStarted(r) /\ UNCHANGED appVars
    \/ \E r \in ResIds : ResEnded(r) /\ UNCHANGED appVars
    \/ \E r \in ResIds : DeliverStarted(r) /\ UNCHANGED appVars
    \/ \E r \in ResIds : DeliverEnded(r) /\ UNCHANGED appVars
    \/ \E r \in ResIds, event \in AppBatches : AppDeliverResult(r, event)
    \/ \E i \in 1..MaxFinals, o \in Outcomes : TranslationSettles(i, o)

SpecTranslate == Init /\ [][NextTranslate]_vars

---------------------------------------------------------------------------
(* Properties *)

\* C1: whenever an ended event is handled while shouldBeListening is set, the
\* handler itself issues exactly one start() request, to the resource that ended,
\* before any other event or caller call is processed.
C1_ExactlyOneRestart ==
    [][ (last'.op = "ended" /\ shouldBeListening) => last'.starts = <<last'.rid>> ]_vars

\* an ended event handled while listening is wanted, whose restart the resource accepted
C1_Witness ==
    /\ last.op = "ended"
    /\ shouldBeListening
    /\ last.starts = <<last.rid>>
    /\ res[last.rid].st = "starting"

\* C2: after stop() or dispose, until start() is called again, shouldBeListening is
\* clear and no ended event, however late, makes the handler request a start().
C2_NoRestartAfterStop ==
    stopped => /\ ~shouldBeListening
               /\ last.op = "ended" => last.starts = <<>>

\* an ended event of the current resource handled after stop() or dispose
C2_Witness ==
    /\ stopped
    /\ last.op = "ended"
    /\ last.rid = recognitionRef
    /\ last.starts = <<>>
    /\ ~isListening

\* a resource that an effect re-run replaced with one for another language
Stale(r) ==
    /\ recognitionRef # 0
    /\ r # recognitionRef
    /\ res[r].lang # res[recognitionRef].lang

\* C3: every event of a resource that configure() replaced (for a different
\* language) is ignored: isListening keeps its value, neither onResult nor onError
\* is invoked and no start() is requested.
C3_StaleEventsIgnored ==
    [][ (last'.op \in EventOps /\ last' # last /\ Stale(last'.rid))
          => /\ isListening' = isListening
             /\ last'.onResult = <<>>
             /\ last'.onError = <<>>
             /\ last'.starts = <<>> ]_vars

\* C4 as stated: isListening is true in every state from the first started event
\* on, through the ended event and the restart, and onError is never called.
C4_ListeningThroughout ==
    /\ scen \in {3, 4, 5} => isListening
    /\ scen \in 1..5 => last.onError = <<>>

\* C4 amended: isListening is true after the first started event, false from the
\* ended event (whose handler requests the restart) until the second started
\* event, true after it; onError is called in no step of the run.
C4_ListeningExceptWhileRestarting ==
    /\ scen \in {3, 5} => isListening
    /\ scen = 4 => ~isListening /\ last.starts = <<1>>
    /\ scen \in 1..5 => last.onError = <<>>

\* the scenario has run to its end: the resource started again after the restart
C4_Witness ==
    scen = 5 /\ isListening /\ shouldBeListening /\ last.op = "started"

\* C5: isListening changes only in the started and ended handlers (never in
\* start() or stop()), and after a started / ended event is handled it is
\* true / false respectively.
C5_MirrorsEvents ==
    [][ /\ isListening' # isListening => last'.op \in {"started", "ended"}
        /\ last'.op = "started" => isListening'
        /\ last'.op = "ended" => ~isListening' ]_vars

\* stop() was called on a capturing resource and isListening is still true
C5_Witness ==
    /\ last.op = "stop"
    /\ last.stops = <<recognitionRef>>
    /\ isListening
    /\ ~shouldBeListening

---------------------------------------------------------------------------
(* What a result batch holds, stated without the handler's loop *)

\* the segments of the batch: those from resultIndex to the end
BatchSegments(event) ==
    SubSeq(event.results, event.resultIndex + 1, Len(event.results))

HasFinal(event) == \E i \in DOMAIN BatchSegments(event) : BatchSegments(event)[i].isFinal
HasInterim(event) == \E i \in DOMAIN BatchSegments(event) : ~BatchSegments(event)[i].isFinal

RECURSIVE Concat(_)
Concat(segs) ==
    IF segs = <<>> THEN <<>> ELSE Head(segs).transcript \o Concat(Tail(segs))

FinalSegments(event) ==
    LET IsFinalSeg(sg) == sg.isFinal IN SelectSeq(BatchSegments(event), IsFinalSeg)

\* the final-flagged segments' text, in segment order
FinalText(event) == Concat(FinalSegments(event))

\* t without its leading and trailing whitespace
Stripped(t) ==
    LET solid == { k \in DOMAIN t : t[k] # " " }
    IN  IF solid = {} THEN <<>>
        ELSE SubSeq(t, CHOOSE k \in solid : \A j \in solid : k <= j,
                       CHOOSE k \in solid : \A j \in solid : k >= j)

\* C6 as stated: a batch with at least one final and at least one interim segment
\* makes exactly one onResult call, with isFinal = true and the final segments'
\* text; the interim text is not delivered.
C6_MixedBatchDeliversFinal ==
    (last.op = "result" /\ HasFinal(last.event) /\ HasInterim(last.event))
        => last.onResult = << Call(Stripped(FinalText(last.event)), TRUE) >>

\* C6 amended: the same, for the batches whose final segments hold some text
\* (their concatenation is not the empty string).
C6_MixedBatchWithFinalText ==
    (/\ last.op = "result"
     /\ HasFinal(last.event)
     /\ HasInterim(last.event)
     /\ FinalText(last.event) # <<>>)
        => last.onResult = << Call(Stripped(FinalText(last.event)), TRUE) >>

\* a batch of an interim segment and two final ones that is delivered as final text
C6_Witness ==
    /\ last.op = "result"
    /\ \E i \in DOMAIN BatchSegments(last.event) :
          BatchSegments(last.event)[i] = Segment(<<"b">>, FALSE)
    /\ Len(FinalSegments(last.event)) = 2
    /\ FinalText(last.event) = <<" ", "a", "b">>
    /\ last.onResult = << Call(<<"a", "b">>, TRUE) >>

\* C7: whatever onResult(text, true) delivers is the trimmed concatenation of the
\* batch's final segments, in order, and is never the empty string.
C7_FinalTextNeverEmpty ==
    last.op = "result" =>
        \A i \in DOMAIN last.onResult :
            last.onResult[i].isFinal =>
                /\ last.onResult[i].text = Stripped(FinalText(last.event))
                /\ last.onResult[i].text # <<>>

\* C8: an error event of kind no-speech or audio-capture invokes no onError; any
\* other kind invokes onError once with the raw identifier; the handler leaves
\* shouldBeListening alone, and the ended event that follows an error restarts
\* exactly when shouldBeListening is set.
C8_ErrorClassification ==
    [][ /\ last'.op = "error" =>
              /\ last'.onError = IF last'.kind \in BenignErrors THEN <<>> ELSE <<last'.kind>>
              /\ last'.starts = <<>>
              /\ shouldBeListening' = shouldBeListening
        /\ (last.op = "error" /\ last'.op = "ended") =>
              last'.starts = IF shouldBeListening THEN <<last'.rid>> ELSE <<>> ]_vars

\* a permission error was surfaced while listening is wanted and the resource lives on
C8_Witness ==
    /\ last.op = "error"
    /\ last.kind = "not-allowed"
    /\ last.onError = <<"not-allowed">>
    /\ shouldBeListening
    /\ res[last.rid].st = "running"

\* C9: no recogniser event handler changes shouldBeListening.
C9_HandlersKeepDesired ==
    [][ last'.op \in EventOps => shouldBeListening' = shouldBeListening ]_vars

\* an ended event was handled while listening is wanted: it is still wanted, and
\* the restarted resource is capturing again before its started event is dispatched
C9_Witness ==
    /\ last.op = "ended"
    /\ shouldBeListening
    /\ last.starts = <<last.rid>>
    /\ res[last.rid].st = "running"
    /\ ~isListening

\* C10: shouldBeListening changes only in start(), stop() and dispose; an effect
\* re-run that rebuilds the resource leaves it as it was.
C10_DesiredOnlyByCaller ==
    [][ shouldBeListening' # shouldBeListening
          => last'.op \in {"start", "stop", "dispose"} ]_vars

\* C11: without the speech-recognition capability every effect run invokes onError
\* once with the unsupported message and builds no resource; start() and stop()
\* then make no request to any resource, raise nothing, and isListening stays false.
C11_NoCapabilityInert ==
    ~capability =>
        /\ nres = 0
        /\ recognitionRef = 0
        /\ ~isListening
        /\ last.starts = <<>>
        /\ last.stops = <<>>
        /\ ~last.threw
        /\ last.op \in {"mount", "configure"} => last.onError = <<Unsupported>>
        /\ last.op \in {"start", "stop"} => last.onError = <<>>

\* start() was called on a host without the capability
C11_Witness ==
    /\ ~capability
    /\ mounted = "mounted"
    /\ last.op = "start"
    /\ shouldBeListening
    /\ last.starts = <<>>

\* C12: start(), whatever the state of the resource, sets shouldBeListening, lets
\* no exception reach the caller and invokes no onError, also when the resource's
\* start() throws on the redundant request.
C12_StartSwallowsRedundant ==
    last.op = "start" =>
        /\ shouldBeListening
        /\ ~last.threw
        /\ last.onError = <<>>
        /\ last.starts = IF recognitionRef = 0 THEN <<>> ELSE <<recognitionRef>>

\* start() was called on a capturing resource, whose start() threw
C12_Witness ==
    /\ last.op = "start"
    /\ last.caught
    /\ res[recognitionRef].st = "running"
    /\ isListening

\* C13: when the resource's stop() throws, stop() and the effect clean-up swallow
\* the exception: none reaches the caller.
C13_StopSwallowsExceptions ==
    last.op \in {"stop", "configure", "dispose"} => ~last.threw

\* C14: when the restart issued by the ended handler throws, the exception is
\* swallowed (nothing propagates, no onError), isListening stays false and
\* shouldBeListening stays set; and the next ended event handled after such a
\* failure, with shouldBeListening still set, again issues one restart request.
C14_FailedRestartSwallowed ==
    [][ /\ (last'.op = "ended" /\ last'.caught) =>
              /\ ~last'.threw
              /\ last'.onError = <<>>
              /\ last'.starts = <<last'.rid>>
              /\ ~isListening'
              /\ shouldBeListening'
        /\ (/\ last.op = "ended"
            /\ last.caught
            /\ shouldBeListening
            /\ \E r \in ResIds : DeliverEnded(r)) =>
              last'.starts = <<last'.rid>> ]_vars

\* an ended event raced a start() of the caller: the handler's restart threw
C14_Witness ==
    /\ last.op = "ended"
    /\ last.caught
    /\ last.rid = recognitionRef
    /\ res[last.rid].st = "starting"
    /\ shouldBeListening
    /\ ~isListening

\* C17: once an effect re-run has replaced the resource, no start() is issued on
\* a discarded resource: every start() request goes to recognitionRef.current.
C17_NoStartOnDiscarded ==
    \A i \in DOMAIN last.starts : last.starts[i] = recognitionRef

C15_TransportFaultSurfaced ==
    [][(\E i \in 1..MaxFinals : TranslationSettles(i, "fault")) =>
          /\ error' = TranslationIssue
          /\ transcripts' = transcripts
          /\ ~isTranslating'
          /\ interimText' = <<>>]_vars

\* C18: a change of the speaker tag or of the target language while listening
\* leaves the current resource, shouldBeListening and isListening as they were.
C18_RebuildOnlyOnSourceLang ==
    [][(/\ isListening
        /\ shouldBeListening
        /\ \/ \E sp \in Speakers : SetSpeaker(sp)
           \/ \E t \in Langs : SetTargetLang(t)) =>
          UNCHANGED <<recognitionRef, shouldBeListening, isListening, res, nres>>]_vars

\* C19: with a resource at hand, a press of the record toggle while
\* shouldBeListening is set calls stop() on the resource and clears shouldBeListening.
C19_ToggleStopsWhenDesired ==
    [][(toggleRecording /\ shouldBeListening /\ recognitionRef # 0) =>
          /\ ~shouldBeListening'
          /\ last'.stops = <<recognitionRef>>]_vars

\* C20: isTranslating is true exactly when a dispatched translation has not yet settled.
C20_TranslatingIffInFlight ==
    isTranslating <=> inflight # <<>>

\* C21: the entries of the transcript log stand in the order in which their
\* final results were delivered, however the translations settle.
C21_LogInDeliveryOrder ==
    \A i, j \in 1..Len(logged) : i < j => logged[i] < logged[j]

=============================================================================
